---- MODULE Spec2Model ----
(***************************************************************************)
(* Duel game server: the session registry (SessionManager), the two-player *)
(* Session with its slot table, socket map and two timers, the HTTP routes *)
(* of routes/games.ts and the Socket.IO gateway of sockets/sessions.ts.    *)
(*                                                                         *)
(* Identifiers.  uuidv4() values are modelled by small integers: a session *)
(* id is a positive number, handed out in increasing order (a fresh uuid   *)
(* is never an id handed out before); the two player ids of session s are *)
(* 10*s+1 and 10*s+2; the empty string '' that addPlayer passes to         *)
(* assignPlayerSlot is 0.  Socket ids are 1..MaxSockets, handed out in     *)
(* increasing order and never reused.                                      *)
(*                                                                         *)
(* A JavaScript Map is a TLA+ function whose DOMAIN is the key set.  The   *)
(* optional request field preferredSlot is a sequence: << >> when absent,  *)
(* <<n>> when the number n was sent.                                       *)
(***************************************************************************)
EXTENDS Integers, Sequences, FiniteSets, TLC

\* ------------------------------------------------------------------ bounds
MaxSockets == 2
MaxRounds == 1

\* Spec and SpecDuel follow one session, the one with id 1
SessionIds == {1}
SocketIds == 1..MaxSockets

\* ------------------------------------------------------- program constants
InitialHealth == 100
MinAttack == 15
MaxAttack == 20
MinDefense == 10
MaxDefense == 15
HealThreshold == 30
HealAmount == 5

\* ------------------------------------------------------------- catalogues
\* config/CharacterType.ts
CharacterType == {"warrior", "mage"}

CharacterTypeData ==
  [t \in CharacterType |->
     IF t = "warrior"
     THEN [name |-> "Warrior", attacks |-> <<"slash", "stab", "shieldBash">>]
     ELSE [name |-> "Mage", attacks |-> <<"fireball", "icebolt", "arcaneBlast">>]]

\* config/AbilityOffense.ts, config/AbilityDefense.ts
OffenseAbility == {"boostAttackOnAttack"}
DefenseAbility == {"halfDamageOnDefend", "healUnder30"}

\* Ability.all(): every offense id with kind offense, then every defense id
AbilityAll ==
  [id \in OffenseAbility \cup DefenseAbility |->
     [id |-> id, kind |-> IF id \in OffenseAbility THEN "offense" ELSE "defense"]]

\* Ability.findById(id): << >> for undefined, <<ability>> when found
AbilityFindById(id) ==
  IF id \in DOMAIN AbilityAll THEN <<AbilityAll[id]>> ELSE << >>

\* Character.parseType / the find() of addPlayer step 3
ParseType(id) == IF id \in CharacterType THEN <<id>> ELSE << >>

\* Character.randomInRange(min, max): the integers Math.random() can yield
RandomInRange(min, max) == min..max

\* new Character(type, ability), given the two random draws: attack is the
\* outcome of randomInRange(15, 20) and defense that of randomInRange(10, 15)
NewCharacter(type, ability, attack, defense) ==
  [type |-> type, name |-> CharacterTypeData[type].name, health |-> InitialHealth,
   attackPower |-> attack, defensePower |-> defense, ability |-> ability,
   attackTypes |-> CharacterTypeData[type].attacks]

\* --------------------------------------------------------- ability hooks
\* Each hook takes the outcome r of its own Math.random() < 0.25 test.
Floor2(n) == n \div 2

\* onAttack that doubles the attack
OnAttack_double(baseAttack, r) == IF r THEN baseAttack * 2 ELSE baseAttack

\* OffenseBehaviors[boostAttackOnAttack].onAttack
OnAttack(baseAttack, r) == IF r THEN Floor2(baseAttack * 3) ELSE baseAttack

\* onDefend that rounds the half up
OnDefend_ceil(netDamage, r) == IF r THEN Floor2(netDamage + 1) ELSE netDamage

\* DefenseBehaviors[halfDamageOnDefend].onDefend
OnDefend(netDamage, r) == IF r THEN Floor2(netDamage) ELSE netDamage

\* afterDamage that heals whatever the health is
AfterDamage_always(healthAfterDamage, r) ==
  IF r THEN healthAfterDamage + HealAmount ELSE healthAfterDamage

\* afterDamage without the test healthAfterDamage > 0
AfterDamage_noAliveTest(healthAfterDamage, r) ==
  IF healthAfterDamage < HealThreshold /\ r
  THEN healthAfterDamage + HealAmount
  ELSE healthAfterDamage

\* DefenseBehaviors[healUnder30].afterDamage
AfterDamage(healthAfterDamage, r) ==
  IF healthAfterDamage > 0 /\ healthAfterDamage < HealThreshold /\ r
  THEN healthAfterDamage + HealAmount
  ELSE healthAfterDamage

\* ------------------------------------------------------------------ state
VARIABLES
  heap,             \* the Session objects constructed so far, by id
  sessions,         \* SessionManager.sessions: the ids in the registry
  socketToSession,  \* gateway Map socket.id -> sessionId
  sessionRounds,    \* gateway Map sessionId -> round number
  connected,        \* socket ids whose 'connection' was handled
  closed,           \* socket ids whose 'disconnect' was handled
  out,              \* what the last handler sent: HTTP response or emits
  resolved,         \* history: successful attack resolutions per session
  cleared           \* history: sessions whose disconnect timer attachSocket cleared

vars == <<heap, sessions, socketToSession, sessionRounds, connected, closed,
          out, resolved, cleared>>

\* ----------------------------------------------------------- Map helpers
MapSet(m, k, v) == [x \in DOMAIN m \cup {k} |-> IF x = k THEN v ELSE m[x]]
MapDelete(m, k) == [x \in DOMAIN m \ {k} |-> m[x]]
MapValues(m) == {m[k] : k \in DOMAIN m}
EmptyMap == << >>

\* --------------------------------------------------------------- Session
player1Id(id) == 10 * id + 1
player2Id(id) == 10 * id + 2
NoPlayerId == 0

\* Session constructor: fresh ids, empty maps, the pending-join timer set
NewSession(id) ==
  [id |-> id, player1Id |-> player1Id(id), player2Id |-> player2Id(id),
   players |-> EmptyMap, sockets |-> EmptyMap,
   pendingJoinTimer |-> "scheduled", disconnectTimer |-> "null",
   \* the callbacks of detachSocket's setTimeout that wait in the event loop
   disconnectTimeouts |-> 0,
   takenSlots |-> {}]

\* Session.getAvailableSlots, as the array it returns
getAvailableSlots(s) ==
  (IF 1 \notin s.takenSlots THEN <<1>> ELSE << >>) \o
  (IF 2 \notin s.takenSlots THEN <<2>> ELSE << >>)

\* JavaScript truthiness of the optional number preferredSlot
Truthy(preferredSlot) == preferredSlot # << >> /\ preferredSlot[1] # 0

\* Session.assignPlayerSlot: [ok, slot, takenSlots] (ok = FALSE: it threw)
assignPlayerSlot(s, playerId, preferredSlot) ==
  IF playerId \in DOMAIN s.players
  THEN [ok |-> TRUE,
        \* two keys hold the same Character object only if they are one key
        slot |-> IF 1 \in s.takenSlots /\ playerId = s.player1Id THEN 1 ELSE 2,
        takenSlots |-> s.takenSlots]
  ELSE IF Truthy(preferredSlot) /\ preferredSlot[1] \notin s.takenSlots
  THEN [ok |-> TRUE, slot |-> preferredSlot[1],
        takenSlots |-> s.takenSlots \cup {preferredSlot[1]}]
  ELSE IF Len(getAvailableSlots(s)) = 0
  THEN [ok |-> FALSE, slot |-> 0, takenSlots |-> s.takenSlots]
  ELSE [ok |-> TRUE, slot |-> getAvailableSlots(s)[1],
        takenSlots |-> s.takenSlots \cup {getAvailableSlots(s)[1]}]

\* bothConnected with some() in place of every()
bothConnected_some(s) ==
  IF Cardinality(DOMAIN s.players) # 2 THEN FALSE
  ELSE LET connectedSet == MapValues(s.sockets)
       IN  \E pid \in DOMAIN s.players : pid \in connectedSet

\* Session.bothConnected
bothConnected(s) ==
  IF Cardinality(DOMAIN s.players) # 2 THEN FALSE
  ELSE LET connectedSet == MapValues(s.sockets)
       IN  \A pid \in DOMAIN s.players : pid \in connectedSet

\* hasPlayer that knows only the players still alive
hasPlayer_alive(s, playerId) ==
  playerId \in DOMAIN s.players /\ s.players[playerId].health > 0

\* Session.hasPlayer
hasPlayer(s, playerId) == playerId \in DOMAIN s.players

\* Session.serialize (the players array as a map by playerId)
serialize(s) ==
  [id |-> s.id,
   players |-> [pid \in DOMAIN s.players |->
                  [playerId |-> pid, name |-> s.players[pid].name,
                   health |-> s.players[pid].health,
                   attackPower |-> s.players[pid].attackPower,
                   defensePower |-> s.players[pid].defensePower,
                   abilityId |-> s.players[pid].ability.id,
                   attackTypes |-> s.players[pid].attackTypes]],
   bothConnected |-> bothConnected(s)]

\* the full test with > in place of >=
SessionFull_gt(s) == Cardinality(DOMAIN s.players) > 2

\* addPlayer step 1: two players already present
SessionFull(s) == Cardinality(DOMAIN s.players) >= 2

\* addPlayer without its step 6
CancelPendingJoin_never(s) == s

\* addPlayer step 6: with two players joined, clear the pending-join timer
CancelPendingJoin(s) ==
  IF Cardinality(DOMAIN s.players) = 2 /\ s.pendingJoinTimer # "null"
  THEN [s EXCEPT !.pendingJoinTimer = "null"]
  ELSE s

\* Session.addPlayer: [ok, error, playerId, s] where ok = FALSE means it
\* threw error, and s is the Session after the call (the slot stays claimed
\* on a throw that comes after assignPlayerSlot).  attack and defense are
\* the random draws of the Character constructor.
addPlayer(s, characterTypeId, abilityId, preferredSlot, attack, defense) ==
  IF SessionFull(s)
  THEN [ok |-> FALSE, error |-> "Session is already full", playerId |-> NoPlayerId,
        s |-> s]
  ELSE
  LET a == assignPlayerSlot(s, NoPlayerId, preferredSlot)
      s1 == [s EXCEPT !.takenSlots = a.takenSlots]
      playerId == IF a.slot = 1 THEN s.player1Id ELSE s.player2Id
      charType == ParseType(characterTypeId)
      ability == AbilityFindById(abilityId)
  IN
  IF ~a.ok
  THEN [ok |-> FALSE, error |-> "No player slots available", playerId |-> NoPlayerId,
        s |-> s]
  ELSE IF charType = << >>
  THEN [ok |-> FALSE, error |-> "Character type not recognized",
        playerId |-> NoPlayerId, s |-> s1]
  ELSE IF ability = << >>
  THEN [ok |-> FALSE, error |-> "Ability not found", playerId |-> NoPlayerId,
        s |-> s1]
  ELSE
  LET character == NewCharacter(charType[1], ability[1], attack, defense)
      s2 == [s1 EXCEPT !.players = MapSet(s1.players, playerId, character)]
  IN  [ok |-> TRUE, error |-> "", playerId |-> playerId, s |-> CancelPendingJoin(s2)]

\* clearTimeout(handle): a waiting callback is taken out of the event loop;
\* a handle whose callback has run is left alone
ClearTimeout(timer, timeouts) == IF timer = "scheduled" THEN timeouts - 1 ELSE timeouts

\* attachSocket that records no mapping
attachSocket_noSet(s, socketId, playerId) ==
  IF bothConnected(s) /\ s.disconnectTimer # "null"
  THEN [s EXCEPT !.disconnectTimer = "null",
                 !.disconnectTimeouts = ClearTimeout(s.disconnectTimer, @)]
  ELSE s

\* attachSocket that maps the socket to player 2 whoever was named
attachSocket_player2(s, socketId, playerId) ==
  LET s1 == [s EXCEPT !.sockets = MapSet(s.sockets, socketId, s.player2Id)]
  IN  IF bothConnected(s1) /\ s1.disconnectTimer # "null"
      THEN [s1 EXCEPT !.disconnectTimer = "null",
                      !.disconnectTimeouts = ClearTimeout(s1.disconnectTimer, @)]
      ELSE s1

\* attachSocket that never clears the disconnect timer
attachSocket_noClear(s, socketId, playerId) ==
  [s EXCEPT !.sockets = MapSet(s.sockets, socketId, playerId)]

\* Session.attachSocket
attachSocket(s, socketId, playerId) ==
  LET s1 == [s EXCEPT !.sockets = MapSet(s.sockets, socketId, playerId)]
  IN  IF bothConnected(s1) /\ s1.disconnectTimer # "null"
      THEN [s1 EXCEPT !.disconnectTimer = "null",
                      !.disconnectTimeouts = ClearTimeout(s1.disconnectTimer, @)]
      ELSE s1

\* detachSocket that sets a timer without testing !this.disconnectTimer
detachSocket_rearm(s, socketId) ==
  IF socketId \notin DOMAIN s.sockets
  THEN [wasAttached |-> FALSE, s |-> s]
  ELSE LET s1 == [s EXCEPT !.sockets = MapDelete(s.sockets, socketId)]
       IN  [wasAttached |-> TRUE,
            s |-> IF ~bothConnected(s1)
                  THEN [s1 EXCEPT !.disconnectTimer = "scheduled",
                                  !.disconnectTimeouts = @ + 1]
                  ELSE s1]

\* detachSocket that sets no disconnect timer
detachSocket_noTimer(s, socketId) ==
  IF socketId \notin DOMAIN s.sockets
  THEN [wasAttached |-> FALSE, s |-> s]
  ELSE [wasAttached |-> TRUE,
        s |-> [s EXCEPT !.sockets = MapDelete(s.sockets, socketId)]]

\* detachSocket that sets the timer without testing bothConnected()
detachSocket_always(s, socketId) ==
  IF socketId \notin DOMAIN s.sockets
  THEN [wasAttached |-> FALSE, s |-> s]
  ELSE LET s1 == [s EXCEPT !.sockets = MapDelete(s.sockets, socketId)]
       IN  [wasAttached |-> TRUE,
            s |-> IF s1.disconnectTimer = "null"
                  THEN [s1 EXCEPT !.disconnectTimer = "scheduled",
                                  !.disconnectTimeouts = @ + 1]
                  ELSE s1]

\* Session.detachSocket: [wasAttached, s]
detachSocket(s, socketId) ==
  IF socketId \notin DOMAIN s.sockets
  THEN [wasAttached |-> FALSE, s |-> s]
  ELSE LET s1 == [s EXCEPT !.sockets = MapDelete(s.sockets, socketId)]
       IN  [wasAttached |-> TRUE,
            s |-> IF ~bothConnected(s1) /\ s1.disconnectTimer = "null"
                  THEN [s1 EXCEPT !.disconnectTimer = "scheduled",
                                  !.disconnectTimeouts = @ + 1]
                  ELSE s1]

\* ------------------------------------------------------- SessionManager
\* SessionManager.get: << >> for undefined
ManagerGet_heap(id) == IF id \in DOMAIN heap THEN <<heap[id]>> ELSE << >>

\* SessionManager.get
ManagerGet(id) == IF id \in sessions THEN <<heap[id]>> ELSE << >>

\* a delete that empties the registry
ManagerDelete_all(id) == {}

\* a delete that removes nothing
ManagerDelete_noop(id) == sessions

\* SessionManager.delete
ManagerDelete(id) == sessions \ {id}

\* ------------------------------------------------------------------ Init
Init ==
  /\ heap = EmptyMap
  /\ sessions = {}
  /\ socketToSession = EmptyMap
  /\ sessionRounds = EmptyMap
  /\ connected = {}
  /\ closed = {}
  /\ out = << >>
  /\ resolved = EmptyMap
  /\ cleared = {}

\* ------------------------------------------------------------ HTTP routes
\* The response of route (create, slots, join) to a request naming sessionId
Http(route, sessionId, status, body) ==
  <<[ch |-> "http", to |-> "client", room |-> sessionId, ev |-> route,
     data |-> [status |-> status, body |-> body]]>>

\* POST /games: createGameHandler -> SessionManager.create -> new Session()
CreateGame ==
  /\ LET id == Cardinality(DOMAIN heap) + 1
     IN  /\ heap' = MapSet(heap, id, NewSession(id))
         /\ sessions' = sessions \cup {id}
         /\ out' = Http("create", id, 200, [sessionId |-> id])
         /\ resolved' = MapSet(resolved, id, 0)
  /\ UNCHANGED <<socketToSession, sessionRounds, connected, closed, cleared>>

\* GET /games/:sessionId/slots
GetSlots(sessionId) ==
  /\ out' = IF ManagerGet(sessionId) = << >>
            THEN Http("slots", sessionId, 404, [error |-> "Session not found"])
            ELSE Http("slots", sessionId, 200,
                      [availableSlots |-> getAvailableSlots(heap[sessionId])])
  /\ UNCHANGED <<heap, sessions, socketToSession, sessionRounds, connected, closed,
                 resolved, cleared>>

\* POST /games/:sessionId/join
\* attack, defense: the random draws made if a Character is constructed
JoinGame(sessionId, characterTypeId, abilityId, preferredSlot, attack, defense) ==
  /\ IF ManagerGet(sessionId) = << >>
     THEN /\ out' = Http("join", sessionId, 404, [error |-> "Session not found"])
          /\ heap' = heap
     ELSE LET r == addPlayer(heap[sessionId], characterTypeId, abilityId,
                             preferredSlot, attack, defense)
          IN  /\ heap' = [heap EXCEPT ![sessionId] = r.s]
              /\ out' = IF r.ok
                        THEN Http("join", sessionId, 200, [playerId |-> r.playerId])
                        ELSE Http("join", sessionId, 400, [error |-> r.error])
  /\ UNCHANGED <<sessions, socketToSession, sessionRounds, connected, closed, resolved,
                 cleared>>

\* ----------------------------------------------------------------- timers
\* The callback set in the Session constructor
PendingJoinTimeout(id) ==
  /\ id \in DOMAIN heap
  /\ heap[id].pendingJoinTimer = "scheduled"
  /\ heap' = [heap EXCEPT ![id].pendingJoinTimer = "fired"]
  /\ sessions' = IF Cardinality(DOMAIN heap[id].players) < 2
                 THEN ManagerDelete(id) ELSE sessions
  /\ out' = << >>
  /\ UNCHANGED <<socketToSession, sessionRounds, connected, closed, resolved, cleared>>

\* The callback set in detachSocket
DisconnectTimeout(id) ==
  /\ id \in DOMAIN heap
  /\ heap[id].disconnectTimer = "scheduled"
  /\ heap' = [heap EXCEPT ![id].disconnectTimer = "fired",
                          ![id].disconnectTimeouts = @ - 1]
  /\ sessions' = ManagerDelete(id)
  /\ out' = << >>
  /\ UNCHANGED <<socketToSession, sessionRounds, connected, closed, resolved, cleared>>

\* -------------------------------------------------------- gateway: combat
Null == "null"

\* step J with the defense id first
AbilityUsed_defenseFirst(offenseAbilityUsed, defenseAbilityUsed) ==
  LET abilityUsed == IF defenseAbilityUsed # Null THEN defenseAbilityUsed ELSE Null
  IN  IF offenseAbilityUsed # Null
      THEN IF abilityUsed # Null
           THEN abilityUsed \o "," \o offenseAbilityUsed
           ELSE offenseAbilityUsed
      ELSE abilityUsed

\* The label of step J: offense id first, then the defense id, comma-joined
AbilityUsed(offenseAbilityUsed, defenseAbilityUsed) ==
  LET abilityUsed == IF offenseAbilityUsed # Null THEN offenseAbilityUsed ELSE Null
  IN  IF defenseAbilityUsed # Null
      THEN IF abilityUsed # Null
           THEN abilityUsed \o "," \o defenseAbilityUsed
           ELSE defenseAbilityUsed
      ELSE abilityUsed

\* step E without the defense
NetDamage_noDefense(modifiedAttack, defensePower) == modifiedAttack

\* Step E: the attack less the defense, never below 0
NetDamage(modifiedAttack, defensePower) ==
  IF modifiedAttack - defensePower < 0 THEN 0 ELSE modifiedAttack - defensePower

\* step K with the defender's entry only
HealthAfter_defenderOnly(players, fromPlayer, toPlayer) ==
  MapSet(EmptyMap, toPlayer, players[toPlayer].health)

\* Step K: the object {[fromPlayer]: attacker.health, [toPlayer]:
\* defender.health}, read from the Characters after the commit
HealthAfter(players, fromPlayer, toPlayer) ==
  MapSet(MapSet(EmptyMap, fromPlayer, players[fromPlayer].health),
         toPlayer, players[toPlayer].health)

\* step G without the clamp
ApplyDamage_noClamp(beforeHealth, netDamage) == beforeHealth - netDamage

\* Step G: subtract the damage, never below 0
ApplyDamage(beforeHealth, netDamage) ==
  IF beforeHealth - netDamage < 0 THEN 0 ELSE beforeHealth - netDamage

\* Steps C..J of the useAbility handler on the two Characters, given the
\* outcomes rA, rD, rH of the three hooks' random tests.
ResolveAttack(attacker, defender, rA, rD, rH) ==
  LET baseAttack == attacker.attackPower
      defensePower == defender.defensePower
      beforeHealth == defender.health
      \* D) offense ability
      isOff == attacker.ability.kind = "offense"
      tryAttack == OnAttack(baseAttack, rA)
      offenseAbilityUsed == IF isOff /\ tryAttack # baseAttack
                            THEN attacker.ability.id ELSE Null
      modifiedAttack == IF isOff THEN tryAttack ELSE baseAttack
      \* E) raw net damage
      netDamage0 == NetDamage(modifiedAttack, defensePower)
      \* F) halfDamageOnDefend
      isHalf == defender.ability.kind = "defense"
                  /\ defender.ability.id = "halfDamageOnDefend"
      tryDamage == OnDefend(netDamage0, rD)
      defUsedF == IF isHalf /\ tryDamage # netDamage0 THEN defender.ability.id ELSE Null
      netDamage == IF isHalf THEN tryDamage ELSE netDamage0
      \* G) apply
      newHealth0 == ApplyDamage(beforeHealth, netDamage)
      \* H) healUnder30
      isHeal == defender.ability.kind = "defense" /\ defender.ability.id = "healUnder30"
      tryHeal == AfterDamage(newHealth0, rH)
      defenseAbilityUsed == IF isHeal /\ tryHeal # newHealth0
                            THEN defender.ability.id ELSE defUsedF
      newHealth == IF isHeal THEN tryHeal ELSE newHealth0
  IN  [netDamage |-> netDamage, newHealth |-> newHealth,
       abilityUsed |-> AbilityUsed(offenseAbilityUsed, defenseAbilityUsed)]

\* Session.useAbility without its step 4 (halfDamageOnDefend)
useAbility_noHalf(s, fromPlayer, toPlayer, rA, rD) ==
  LET attacker == s.players[fromPlayer]
      defender == s.players[toPlayer]
      attackValue == IF attacker.ability.kind = "offense"
                     THEN OnAttack(attacker.attackPower, rA)
                     ELSE attacker.attackPower
      diff == attackValue - defender.defensePower
      netDamage == IF diff < 0 THEN 0 ELSE diff
      lowered == defender.health - netDamage
      health5 == IF lowered < 0 THEN 0 ELSE lowered
      health6 == IF defender.ability.kind = "defense"
                      /\ defender.ability.id = "healUnder30"
                 THEN AfterDamage(health5, rD) ELSE health5
  IN  [s EXCEPT !.players[toPlayer].health = health6]

\* Session.useAbility(fromPlayer, toPlayer), for two players the session
\* holds; rA and rD are the outcomes of the hooks' random tests.  The method
\* is called from nowhere in the program.
useAbility(s, fromPlayer, toPlayer, rA, rD) ==
  LET attacker == s.players[fromPlayer]
      defender == s.players[toPlayer]
      \* 1), 2) base attack value, attacker's ability
      attackValue == IF attacker.ability.kind = "offense"
                     THEN OnAttack(attacker.attackPower, rA)
                     ELSE attacker.attackPower
      \* 3) compute netDamage
      diff == attackValue - defender.defensePower
      netDamage3 == IF diff < 0 THEN 0 ELSE diff
      \* 4) defender's ability
      netDamage == IF defender.ability.kind = "defense"
                        /\ defender.ability.id = "halfDamageOnDefend"
                   THEN OnDefend(netDamage3, rD) ELSE netDamage3
      \* 5) apply damage
      lowered == defender.health - netDamage
      health5 == IF lowered < 0 THEN 0 ELSE lowered
      \* 6) possibly heal
      health6 == IF defender.ability.kind = "defense"
                      /\ defender.ability.id = "healUnder30"
                 THEN AfterDamage(health5, rD) ELSE health5
  IN  [s EXCEPT !.players[toPlayer].health = health6]

\* ------------------------------------------------------ gateway: handlers
\* every emit sent to the room, errors included
Emit_toRoom(to, room, ev, data) ==
  [ch |-> "socket", to |-> "room", room |-> room, ev |-> ev, data |-> data]

\* One emit: socket.emit (to the caller) or io.in(room).emit (to the room)
Emit(to, room, ev, data) == [ch |-> "socket", to |-> to, room |-> room, ev |-> ev,
                             data |-> data]

OpenSockets == connected \ closed

\* io.on('connection')
Connection ==
  /\ connected' = connected \cup {Cardinality(connected) + 1}
  /\ out' = << >>
  /\ UNCHANGED <<heap, sessions, socketToSession, sessionRounds, closed, resolved,
                 cleared>>

\* step B without the increment
NextRoundNumber_same(rounds, sessionId) ==
  IF sessionId \in DOMAIN rounds THEN rounds[sessionId] ELSE 1

\* a last step of the join handler that starts every session's counter anew
JoinInitRounds_all(rounds, sessionId, both) ==
  IF sessionId \notin DOMAIN rounds
  THEN [i \in DOMAIN rounds \cup {sessionId} |-> 0]
  ELSE rounds

\* the last step of the join handler without its has() test
JoinInitRounds_reset(rounds, sessionId, both) ==
  IF both THEN MapSet(rounds, sessionId, 0) ELSE rounds

\* join handler, last step: start the round counter at 0 once both are
\* connected, unless the session already has one
JoinInitRounds(rounds, sessionId, both) ==
  IF both /\ sessionId \notin DOMAIN rounds THEN MapSet(rounds, sessionId, 0) ELSE rounds

\* useAbility handler, step B: the number of this round
NextRoundNumber(rounds, sessionId) ==
  IF sessionId \in DOMAIN rounds THEN rounds[sessionId] + 1 ELSE 1

\* socket.on('join')
OnJoin(socketId, sessionId, playerId) ==
  /\ socketId \in OpenSockets
  /\ IF ManagerGet(sessionId) = << >>
     THEN /\ out' = <<Emit("caller", sessionId, "error", "Session not found.")>>
          /\ UNCHANGED <<heap, socketToSession, sessionRounds, cleared>>
     ELSE IF ~hasPlayer(heap[sessionId], playerId)
     THEN /\ out' = <<Emit("caller", sessionId, "error",
                           "You have not joined or invalid playerId")>>
          /\ UNCHANGED <<heap, socketToSession, sessionRounds, cleared>>
     ELSE LET sess == attachSocket(heap[sessionId], socketId, playerId)
              serialized == serialize(sess)
          IN  /\ heap' = [heap EXCEPT ![sessionId] = sess]
              /\ socketToSession' = MapSet(socketToSession, socketId, sessionId)
              /\ out' = <<Emit("room", sessionId, "state", serialize(sess))>>
              /\ sessionRounds' =
                   JoinInitRounds(sessionRounds, sessionId, serialized.bothConnected)
              /\ cleared' = IF heap[sessionId].disconnectTimer # "null"
                                 /\ sess.disconnectTimer = "null"
                             THEN cleared \cup {sessionId} ELSE cleared
  /\ UNCHANGED <<sessions, connected, closed, resolved>>

\* socket.on('useAbility').  rA is the outcome of the random test of the
\* attacker's onAttack hook, rD that of the one hook the defender's ability
\* has (onDefend or afterDamage; a Character has exactly one ability).
OnUseAbility(socketId, sessionId, fromPlayer, toPlayer, rA, rD) ==
  /\ socketId \in OpenSockets
  /\ IF ManagerGet(sessionId) = << >>
     THEN /\ out' = <<Emit("caller", sessionId, "error", "Session not found.")>>
          /\ UNCHANGED <<heap, sessionRounds, resolved>>
     ELSE IF ~hasPlayer(heap[sessionId], fromPlayer) \/ ~hasPlayer(heap[sessionId], toPlayer)
     THEN /\ out' = <<Emit("caller", sessionId, "error",
                           "One or both players not recognized.")>>
          /\ UNCHANGED <<heap, sessionRounds, resolved>>
     ELSE LET sess == heap[sessionId]
              attacker == sess.players[fromPlayer]
              defender == sess.players[toPlayer]
              roundNumber == NextRoundNumber(sessionRounds, sessionId)
              r == ResolveAttack(attacker, defender, rA, rD, rD)
              after == [sess EXCEPT !.players[toPlayer].health = r.newHealth]
              healthAfter == HealthAfter(after.players, fromPlayer, toPlayer)
              roundResult ==
                [roundNumber |-> roundNumber, sessionId |-> sessionId,
                 attackerId |-> fromPlayer, attackerName |-> attacker.name,
                 defenderId |-> toPlayer, defenderName |-> defender.name,
                 abilityUsed |-> r.abilityUsed, damageDealt |-> r.netDamage,
                 healthAfter |-> healthAfter]
          IN  /\ sessionRounds' = MapSet(sessionRounds, sessionId, roundNumber)
              /\ heap' = [heap EXCEPT ![sessionId] = after]
              /\ out' = <<Emit("room", sessionId, "roundResult", roundResult),
                          Emit("room", sessionId, "state", serialize(after))>>
              /\ resolved' = [resolved EXCEPT ![sessionId] = @ + 1]
  /\ UNCHANGED <<sessions, socketToSession, connected, closed, cleared>>

\* socket.on('disconnect')
OnDisconnect(socketId) ==
  /\ socketId \in OpenSockets
  /\ closed' = closed \cup {socketId}
  /\ IF socketId \notin DOMAIN socketToSession
     THEN /\ out' = << >>
          /\ UNCHANGED <<heap, socketToSession>>
     ELSE LET sessionId == socketToSession[socketId]
          IN  /\ IF ManagerGet(sessionId) # << >>
                 THEN LET d == detachSocket(heap[sessionId], socketId)
                      IN  /\ heap' = [heap EXCEPT ![sessionId] = d.s]
                          /\ out' = IF d.wasAttached
                                    THEN <<Emit("room", sessionId, "state",
                                                serialize(d.s))>>
                                    ELSE << >>
                 ELSE /\ heap' = heap
                      /\ out' = << >>
              /\ socketToSession' = MapDelete(socketToSession, socketId)
  /\ UNCHANGED <<sessions, sessionRounds, connected, resolved, cleared>>

\* ------------------------------------------------------------------ inputs
\* Spec: one session and its whole life cycle.  The requests carry a valid
\* and an unknown character type and ability, every kind of preferredSlot
\* (absent, 0, 1, 2, out of range) and every known or unknown player id; the
\* Characters are built with the highest attack and the lowest defense.
CharacterTypeInputs == {"warrior", "dragon"}
AbilityInputs == {"boostAttackOnAttack", "fly"}
PreferredSlotInputs == {<< >>, <<0>>, <<1>>, <<2>>, <<3>>}
AttackDraws == {MaxAttack}
DefenseDraws == {MinDefense}
\* a player id of the right form that belongs to no session
UnknownPlayerId == player2Id(0)
PlayerIdInputs == {player1Id(id) : id \in SessionIds} \cup
                  {player2Id(id) : id \in SessionIds} \cup {UnknownPlayerId}

\* The useAbility handler reads nothing of the socket that sent the event, so
\* the lowest open socket sends it.
Sender == {c \in OpenSockets : \A x \in OpenSockets : c <= x}

\* the round counters stay within the bound n
RoundsWithin(n) == \A id \in DOMAIN sessionRounds' : sessionRounds'[id] <= n

Next ==
  \/ CreateGame /\ Cardinality(DOMAIN heap) < Cardinality(SessionIds)
  \/ \E id \in SessionIds : GetSlots(id)
  \/ \E id \in SessionIds, ct \in CharacterTypeInputs, ab \in AbilityInputs,
        ps \in PreferredSlotInputs, a \in AttackDraws, d \in DefenseDraws :
          JoinGame(id, ct, ab, ps, a, d)
  \/ Connection /\ Cardinality(connected) < MaxSockets
  \/ \E c \in SocketIds, id \in SessionIds, p \in PlayerIdInputs : OnJoin(c, id, p)
  \/ \E c \in Sender, id \in SessionIds, f \in PlayerIdInputs, t \in PlayerIdInputs,
        rA \in BOOLEAN :
          OnUseAbility(c, id, f, t, rA, FALSE) /\ RoundsWithin(MaxRounds)
  \/ \E c \in SocketIds : OnDisconnect(c)
  \/ \E id \in SessionIds : PendingJoinTimeout(id)
  \/ \E id \in SessionIds : DisconnectTimeout(id)

Spec == Init /\ [][Next]_vars

\* ------------------------------------------------- the duel specification
\* One session whose two players join with every ability, the highest attack
\* and the lowest defense, then attack for up to DuelRounds rounds: long
\* enough for a Character's health to reach 0.
DuelRounds == 6
DuelAttackDraws == {MaxAttack}
DuelDefenseDraws == {MinDefense}
DuelPlayerIds == {player1Id(1), player2Id(1)}

NextDuel ==
  \/ CreateGame /\ Cardinality(DOMAIN heap) < 1
  \/ \E ab \in DOMAIN AbilityAll, a \in DuelAttackDraws, d \in DuelDefenseDraws :
       JoinGame(1, "warrior", ab, << >>, a, d)
  \/ Connection /\ Cardinality(connected) < 1
  \/ \E f \in DuelPlayerIds, t \in DuelPlayerIds, rA \in BOOLEAN, rD \in BOOLEAN :
       OnUseAbility(1, 1, f, t, rA, rD) /\ RoundsWithin(DuelRounds)

SpecDuel == Init /\ [][NextDuel]_vars

\* ------------------------------------------ the round-counter specification
\* One session whose players join with valid requests; their sockets join and
\* disconnect, the timers fire and attacks are resolved in every order.
CounterRounds == 3

NextRounds ==
  \/ CreateGame /\ Cardinality(DOMAIN heap) < 1
  \/ JoinGame(1, "warrior", "boostAttackOnAttack", << >>, MaxAttack, MinDefense)
  \/ Connection /\ Cardinality(connected) < MaxSockets
  \/ \E c \in SocketIds, p \in DuelPlayerIds : OnJoin(c, 1, p)
  \/ \E c \in Sender, f \in DuelPlayerIds, t \in DuelPlayerIds, rA \in BOOLEAN :
       OnUseAbility(c, 1, f, t, rA, FALSE) /\ RoundsWithin(CounterRounds)
  \/ \E c \in SocketIds : OnDisconnect(c)
  \/ PendingJoinTimeout(1)
  \/ DisconnectTimeout(1)

SpecRounds == Init /\ [][NextRounds]_vars

\* ---------------------------------------------- the gateway specification
\* One session whose players join with valid requests; the sockets send join
\* and useAbility events naming every known or unknown player id, and
\* disconnect; both timers fire.
GatewayRounds == 1

NextGateway ==
  \/ CreateGame /\ Cardinality(DOMAIN heap) < 1
  \/ JoinGame(1, "warrior", "boostAttackOnAttack", << >>, MaxAttack, MinDefense)
  \/ Connection /\ Cardinality(connected) < MaxSockets
  \/ \E c \in SocketIds, p \in PlayerIdInputs : OnJoin(c, 1, p)
  \/ \E c \in Sender, f \in PlayerIdInputs, t \in PlayerIdInputs, rA \in BOOLEAN :
       OnUseAbility(c, 1, f, t, rA, FALSE) /\ RoundsWithin(GatewayRounds)
  \/ \E c \in SocketIds : OnDisconnect(c)
  \/ PendingJoinTimeout(1)
  \/ DisconnectTimeout(1)

SpecGateway == Init /\ [][NextGateway]_vars

\* --------------------------------------------- the knockout specification
\* One session whose two players join with valid requests and attack for up
\* to KnockoutRounds rounds, long enough for a Character to reach health 0
\* and attack again, while sockets join and disconnect and both timers fire.
\* The attacker's boost fires every round (damage 20, five rounds from 100
\* to 0).
KnockoutRounds == 6

NextKnockout ==
  \/ CreateGame /\ Cardinality(DOMAIN heap) < 1
  \/ JoinGame(1, "warrior", "boostAttackOnAttack", << >>, MaxAttack, MinDefense)
  \/ Connection /\ Cardinality(connected) < MaxSockets
  \/ \E c \in SocketIds, p \in DuelPlayerIds : OnJoin(c, 1, p)
  \/ \E c \in Sender, f \in DuelPlayerIds, t \in DuelPlayerIds :
       OnUseAbility(c, 1, f, t, TRUE, FALSE) /\ RoundsWithin(KnockoutRounds)
  \/ \E c \in SocketIds : OnDisconnect(c)
  \/ PendingJoinTimeout(1)
  \/ DisconnectTimeout(1)

SpecKnockout == Init /\ [][NextKnockout]_vars

\* ----------------------------------------- the two-session specification
\* Up to PairSessions sessions, each joined with valid requests; a socket may
\* send join events for any of them, as any of their players, and then
\* disconnect; the timers of every session fire.
PairSessions == 2
PairSessionIds == 1..PairSessions
PairPlayerIds == {player1Id(id) : id \in PairSessionIds} \cup
                 {player2Id(id) : id \in PairSessionIds}

NextPair ==
  \/ CreateGame /\ Cardinality(DOMAIN heap) < PairSessions
  \/ \E id \in PairSessionIds :
       JoinGame(id, "warrior", "boostAttackOnAttack", << >>, MaxAttack, MinDefense)
  \/ Connection /\ Cardinality(connected) < MaxSockets
  \/ \E c \in SocketIds, id \in PairSessionIds, p \in PairPlayerIds : OnJoin(c, id, p)
  \/ \E c \in SocketIds : OnDisconnect(c)
  \/ \E id \in PairSessionIds : PendingJoinTimeout(id)
  \/ \E id \in PairSessionIds : DisconnectTimeout(id)

SpecPair == Init /\ [][NextPair]_vars

\* --------------------------------------------- the registry specification
\* Two sessions and every kind of request to each of them, before and after
\* its removal: slot queries, valid joins, one socket that joins, attacks
\* (with the player ids of either session) and disconnects, and both timers
\* of each session.  No hook triggers.
RegistryRounds == 1
RegistrySessionIds == {1, 2}
RegistryPlayerIds == {player1Id(id) : id \in RegistrySessionIds} \cup
                     {player2Id(id) : id \in RegistrySessionIds}

NextRegistry ==
  \/ CreateGame /\ Cardinality(DOMAIN heap) < Cardinality(RegistrySessionIds)
  \/ \E id \in RegistrySessionIds : GetSlots(id)
  \/ \E id \in RegistrySessionIds :
       JoinGame(id, "warrior", "boostAttackOnAttack", << >>, MaxAttack, MinDefense)
  \/ Connection /\ Cardinality(connected) < 1
  \/ \E c \in SocketIds, id \in RegistrySessionIds, p \in RegistryPlayerIds : OnJoin(c, id, p)
  \/ \E c \in Sender, id \in RegistrySessionIds, f \in RegistryPlayerIds, t \in RegistryPlayerIds :
       OnUseAbility(c, id, f, t, FALSE, FALSE) /\ RoundsWithin(RegistryRounds)
  \/ \E c \in SocketIds : OnDisconnect(c)
  \/ \E id \in RegistrySessionIds : PendingJoinTimeout(id)
  \/ \E id \in RegistrySessionIds : DisconnectTimeout(id)

SpecRegistry == Init /\ [][NextRegistry]_vars

\* ---------------------------------------------- the session specification
\* The Session class on its own: one session is created, players join with
\* valid requests, and attachSocket and detachSocket are called directly,
\* attachSocket with any socket id and any joined player (mapped sockets
\* included), detachSocket with any socket id (unmapped ones included);
\* both timers run.  The calls go on after the session has left the registry,
\* as the caller may still hold the object.
Return(sessionId, method, value) ==
  <<[ch |-> "return", to |-> "caller", room |-> sessionId, ev |-> method,
     data |-> value]>>

\* sess.attachSocket(socketId, playerId)
AttachSocketCall(id, socketId, playerId) ==
  /\ id \in DOMAIN heap
  /\ hasPlayer(heap[id], playerId)
  /\ heap' = [heap EXCEPT ![id] = attachSocket(heap[id], socketId, playerId)]
  /\ out' = Return(id, "attachSocket", TRUE)
  /\ UNCHANGED <<sessions, socketToSession, sessionRounds, connected, closed,
                 resolved, cleared>>

\* sess.detachSocket(socketId)
DetachSocketCall(id, socketId) ==
  /\ id \in DOMAIN heap
  /\ LET d == detachSocket(heap[id], socketId)
     IN  /\ heap' = [heap EXCEPT ![id] = d.s]
         /\ out' = Return(id, "detachSocket", d.wasAttached)
  /\ UNCHANGED <<sessions, socketToSession, sessionRounds, connected, closed,
                 resolved, cleared>>

NextSession ==
  \/ CreateGame /\ Cardinality(DOMAIN heap) < Cardinality(SessionIds)
  \/ \E id \in SessionIds :
       JoinGame(id, "warrior", "boostAttackOnAttack", << >>, MaxAttack, MinDefense)
  \/ \E id \in SessionIds, c \in SocketIds, p \in PlayerIdInputs :
       AttachSocketCall(id, c, p)
  \/ \E id \in SessionIds, c \in SocketIds : DetachSocketCall(id, c)
  \/ \E id \in SessionIds : PendingJoinTimeout(id)
  \/ \E id \in SessionIds : DisconnectTimeout(id)

SpecSession == Init /\ [][NextSession]_vars

\* -------------------------------------------- the character specification
\* One session whose join requests carry either character type, an offense
\* or a defense ability and every kind of preferredSlot, and whose
\* Characters are built with the lowest or the highest attack and defense;
\* one socket sends attacks between the joined players.  No hook triggers.
CharacterRounds == 1
CharacterAbilityInputs == {"boostAttackOnAttack", "healUnder30"}
CharacterAttackDraws == {MinAttack, MaxAttack}
CharacterDefenseDraws == {MinDefense, MaxDefense}

NextCharacters ==
  \/ CreateGame /\ Cardinality(DOMAIN heap) < Cardinality(SessionIds)
  \/ \E id \in SessionIds, ct \in CharacterType, ab \in CharacterAbilityInputs,
        ps \in PreferredSlotInputs, a \in CharacterAttackDraws,
        d \in CharacterDefenseDraws :
          JoinGame(id, ct, ab, ps, a, d)
  \/ Connection /\ Cardinality(connected) < 1
  \/ \E c \in Sender, id \in SessionIds, f \in PlayerIdInputs, t \in PlayerIdInputs :
       OnUseAbility(c, id, f, t, FALSE, FALSE) /\ RoundsWithin(CharacterRounds)

SpecCharacters == Init /\ [][NextCharacters]_vars

\* ----------------------------------------------- the combat specification
\* The round resolution as a function of its inputs.  The initial states
\* are the sessions with two joined players in which player 1 has any attack
\* of randomInRange(15, 20) and any ability; player 2 has any defense of
\* randomInRange(10, 15), any ability and one of the health values of
\* CombatHealthDraws; one socket is connected.  Player 1 then attacks
\* player 2 under every outcome of the hooks' random tests.
CombatRounds == 1
CombatHealthDraws == {0, 1, 4, 5, 12, 24, 25, 29, 30, 34, 35, 100}

CombatSession(ab1, attack1, ab2, defense2, health2) ==
  [NewSession(1) EXCEPT
     !.players =
        MapSet(MapSet(EmptyMap, player1Id(1),
                      NewCharacter("warrior", AbilityAll[ab1], attack1, MinDefense)),
               player2Id(1),
               [NewCharacter("mage", AbilityAll[ab2], MaxAttack, defense2)
                  EXCEPT !.health = health2]),
     !.takenSlots = {1, 2},
     !.pendingJoinTimer = "null"]

InitCombat ==
  /\ \E ab1 \in DOMAIN AbilityAll, attack1 \in RandomInRange(MinAttack, MaxAttack),
        ab2 \in DOMAIN AbilityAll, defense2 \in RandomInRange(MinDefense, MaxDefense),
        health2 \in CombatHealthDraws :
       heap = MapSet(EmptyMap, 1, CombatSession(ab1, attack1, ab2, defense2, health2))
  /\ sessions = {1}
  /\ socketToSession = EmptyMap
  /\ sessionRounds = EmptyMap
  /\ connected = {1}
  /\ closed = {}
  /\ out = << >>
  /\ resolved = MapSet(EmptyMap, 1, 0)
  /\ cleared = {}

NextCombat ==
  \E rA \in BOOLEAN, rD \in BOOLEAN :
    OnUseAbility(1, 1, player1Id(1), player2Id(1), rA, rD) /\ RoundsWithin(CombatRounds)

SpecCombat == InitCombat /\ [][NextCombat]_vars

\* ------------------------------------------ the equivalence specification
\* From the initial states of the combat specification, a round is resolved
\* either by the gateway's useAbility handler or by a direct call of
\* Session.useAbility, player 1 attacking player 2 or player 2 itself, under
\* every outcome of the hooks' random tests.
EquivalenceRounds == 1
ResolvedWithin(n) == \A id \in DOMAIN resolved' : resolved'[id] <= n

\* sess.useAbility(fromPlayer, toPlayer)
UseAbilityCall(id, fromPlayer, toPlayer, rA, rD) ==
  /\ id \in DOMAIN heap
  /\ IF ~hasPlayer(heap[id], fromPlayer) \/ ~hasPlayer(heap[id], toPlayer)
     THEN /\ out' = Return(id, "useAbility", "One or both players not found")
          /\ UNCHANGED <<heap, resolved>>
     ELSE /\ heap' = [heap EXCEPT
                        ![id] = useAbility(heap[id], fromPlayer, toPlayer, rA, rD)]
          /\ out' = Return(id, "useAbility", Null)
          /\ resolved' = [resolved EXCEPT ![id] = @ + 1]
  /\ UNCHANGED <<sessions, socketToSession, sessionRounds, connected, closed, cleared>>

EquivalenceAttackers == {player1Id(1), player2Id(1)}

NextEquivalence ==
  \/ \E f \in EquivalenceAttackers, rA \in BOOLEAN, rD \in BOOLEAN :
       OnUseAbility(1, 1, f, player2Id(1), rA, rD) /\ ResolvedWithin(EquivalenceRounds)
  \/ \E f \in EquivalenceAttackers, rA \in BOOLEAN, rD \in BOOLEAN :
       UseAbilityCall(1, f, player2Id(1), rA, rD) /\ ResolvedWithin(EquivalenceRounds)

SpecEquivalence == InitCombat /\ [][NextEquivalence]_vars

\* ------------------------------------------------ the timer specification
\* One session whose players join with a valid or an unknown character type
\* and every kind of preferredSlot while up to TimerSockets sockets connect, join as either player and disconnect: enough
\* sockets for a player to come back on a new socket after the old one has
\* gone.  A timer that stays scheduled does fire (the event loop runs the
\* callback of every setTimeout that is not cleared): weak fairness of the
\* two callbacks.
TimerSockets == 3

NextTimers ==
  \/ CreateGame /\ Cardinality(DOMAIN heap) < 1
  \/ \E ct \in CharacterTypeInputs, ps \in PreferredSlotInputs :
       JoinGame(1, ct, "boostAttackOnAttack", ps, MaxAttack, MinDefense)
  \/ Connection /\ Cardinality(connected) < TimerSockets
  \/ \E c \in 1..TimerSockets, p \in DuelPlayerIds : OnJoin(c, 1, p)
  \/ \E c \in 1..TimerSockets : OnDisconnect(c)
  \/ PendingJoinTimeout(1)
  \/ DisconnectTimeout(1)

TimerFairness == WF_vars(PendingJoinTimeout(1)) /\ WF_vars(DisconnectTimeout(1))

SpecTimers == Init /\ [][NextTimers]_vars /\ TimerFairness

\* ================================================================= claims
Joined(id) == DOMAIN heap[id].players
JoinedAfter(id) == DOMAIN heap'[id].players
RoundsOf(id) == IF id \in DOMAIN sessionRounds THEN sessionRounds[id] ELSE 0
SeqToSet(q) == {q[i] : i \in DOMAIN q}
SessionFullError == [status |-> 400, body |-> [error |-> "Session is already full"]]
NoSlotsError == [status |-> 400, body |-> [error |-> "No player slots available"]]

\* C1: in every session the round counter equals the number of successful
\* attack resolutions so far, whatever joins, disconnects and timer events
\* came in between, and the roundResult of the k-th resolution carries
\* roundNumber = k.
C1_RoundCounter ==
  /\ \A id \in DOMAIN heap : RoundsOf(id) = resolved[id]
  /\ \A i \in DOMAIN out :
       out[i].ev = "roundResult" =>
         out[i].data.roundNumber = resolved[out[i].data.sessionId]

\* C1 witness: the third resolution of a session whose two players are both
\* connected has just reported round 3.
C1_Witness ==
  \E id \in DOMAIN heap :
    /\ resolved[id] = 3
    /\ bothConnected(heap[id])
    /\ \E i \in DOMAIN out : out[i].ev = "roundResult" /\ out[i].data.roundNumber = 3

\* C2: the health of every Character of every session is at least 0.
C2_HealthNonNegative ==
  \A id \in DOMAIN heap : \A p \in Joined(id) : heap[id].players[p].health >= 0

\* C2 witness: a round that dealt damage has left its defender at health 0.
C2_Witness ==
  \E i \in DOMAIN out :
    /\ out[i].ev = "roundResult"
    /\ out[i].data.damageDealt > 0
    /\ heap[out[i].data.sessionId].players[out[i].data.defenderId].health = 0

\* C3: a successful attack resolution leaves the health of fromPlayer as it
\* was, for every pair (fromPlayer, toPlayer) the handler accepts.
C3_AttackerHealthUnchanged ==
  [][\A c \in SocketIds, id \in SessionIds, f \in PlayerIdInputs, t \in PlayerIdInputs,
        rA \in BOOLEAN, rD \in BOOLEAN :
       ( /\ OnUseAbility(c, id, f, t, rA, rD)
         /\ id \in sessions
         /\ f \in Joined(id) /\ t \in Joined(id) )
       => heap'[id].players[f].health = heap[id].players[f].health]_vars

\* Two players have joined and each is the value of some socket-map entry
TwoJoinedAllMapped(s) ==
  /\ Cardinality(DOMAIN s.players) = 2
  /\ \A p \in DOMAIN s.players : \E c \in DOMAIN s.sockets : s.sockets[c] = p

\* C4: bothConnected() is true exactly when two players have joined and each
\* joined player id is the value of some entry of the socket map; the
\* bothConnected field of every state broadcast says the same.
C4_BothConnected ==
  /\ \A id \in DOMAIN heap : bothConnected(heap[id]) <=> TwoJoinedAllMapped(heap[id])
  /\ \A i \in DOMAIN out :
       out[i].ev = "state" =>
         (out[i].data.bothConnected <=> TwoJoinedAllMapped(heap[out[i].data.id]))

\* C4 witness: both players are mapped and the last broadcast says so.
C4_Witness ==
  \E id \in sessions :
    /\ TwoJoinedAllMapped(heap[id])
    /\ \E i \in DOMAIN out : out[i].ev = "state" /\ out[i].data.bothConnected

\* C5: getAvailableSlots() returns only slots of {1,2} and never a slot
\* whose player has joined (slot 1 is bound to player1Id, slot 2 to
\* player2Id).  'Strict subset' is read as 'nothing outside {1,2}': a new
\* session returns both slots.
C5_AvailableSlots ==
  \A id \in DOMAIN heap :
    LET avail == SeqToSet(getAvailableSlots(heap[id]))
    IN  /\ avail \subseteq {1, 2}
        /\ heap[id].player1Id \in Joined(id) => 1 \notin avail
        /\ heap[id].player2Id \in Joined(id) => 2 \notin avail

\* C6: a successful addPlayer returns a player id that no earlier addPlayer
\* of the session returned, and replaces no stored Character.
C6_DistinctPlayerIds ==
  [][\A id \in SessionIds, ct \in CharacterTypeInputs, ab \in AbilityInputs,
        ps \in PreferredSlotInputs, a \in AttackDraws, d \in DefenseDraws :
       ( /\ JoinGame(id, ct, ab, ps, a, d)
         /\ id \in sessions
         /\ out'[1].data.status = 200 )
       => /\ out'[1].data.body.playerId \notin Joined(id)
          /\ \A p \in Joined(id) : heap'[id].players[p] = heap[id].players[p]]_vars

\* C7: an addPlayer whose character type or ability does not resolve fails
\* and claims no slot: the available slots and the joined players are as
\* before.
C7_FailedJoinClaimsNothing ==
  [][\A id \in SessionIds, ct \in CharacterTypeInputs, ab \in AbilityInputs,
        ps \in PreferredSlotInputs, a \in AttackDraws, d \in DefenseDraws :
       ( /\ JoinGame(id, ct, ab, ps, a, d)
         /\ id \in sessions
         /\ (ParseType(ct) = << >> \/ AbilityFindById(ab) = << >>) )
       => /\ out'[1].data.status = 400
          /\ getAvailableSlots(heap'[id]) = getAvailableSlots(heap[id])
          /\ JoinedAfter(id) = Joined(id)]_vars

\* This step is a join request that reached addPlayer of session id: only the
\* join route answers with ev = "join", and it answers 404 without calling
\* addPlayer when the session is not in the registry.
AddPlayerStep(id) ==
  /\ out' # << >>
  /\ out'[1].ev = "join"
  /\ out'[1].room = id
  /\ id \in sessions

\* C8: addPlayer on a session with two joined players fails with 'Session is
\* already full' and changes nothing of the session; the number of joined
\* players is never above 2 and never goes down.
C8_FullSessionRejects ==
  [][ /\ \A id \in DOMAIN heap :
           /\ Cardinality(JoinedAfter(id)) <= 2
           /\ Cardinality(JoinedAfter(id)) >= Cardinality(Joined(id))
      /\ \A id \in sessions :
           (AddPlayerStep(id) /\ Cardinality(Joined(id)) = 2)
           => /\ out'[1].data = SessionFullError
              /\ heap'[id] = heap[id] ]_vars

\* C8 witness: a join request to a session with two players was answered
\* 'Session is already full'.
C8_Witness ==
  \E id \in sessions :
    /\ Cardinality(Joined(id)) = 2
    /\ out = Http("join", id, 400, SessionFullError.body)

\* C9: slot assignment claims the preferred slot when it is given and free,
\* else the lowest free slot; it fails with 'No player slots available'
\* exactly when no slot is free; the slots claimed are always 1 or 2.
C9_SlotAssignment ==
  [][\A id \in SessionIds, ct \in CharacterTypeInputs, ab \in AbilityInputs,
        ps \in PreferredSlotInputs, a \in AttackDraws, d \in DefenseDraws :
       ( /\ JoinGame(id, ct, ab, ps, a, d)
         /\ id \in sessions
         /\ Cardinality(Joined(id)) < 2 )
       => LET free == {1, 2} \ heap[id].takenSlots
              lowest == CHOOSE k \in free : \A x \in free : k <= x
              claimed == IF ps # << >> /\ ps[1] \in free THEN ps[1] ELSE lowest
          IN  /\ heap'[id].takenSlots \subseteq {1, 2}
              /\ (free = {}) <=> (out'[1].data = NoSlotsError)
              /\ free # {} => heap'[id].takenSlots = heap[id].takenSlots \cup {claimed}]_vars

\* C10: once two players have joined, the pending-join timer is no longer
\* scheduled, so it removes the session in no later state; when the timer
\* does remove a session, fewer than two players had joined as it fired.
C10_PendingJoinTimer ==
  [][\A id \in DOMAIN heap :
       /\ Cardinality(JoinedAfter(id)) = 2 => heap'[id].pendingJoinTimer # "scheduled"
       /\ (PendingJoinTimeout(id) /\ id \in sessions /\ id \notin sessions')
            => Cardinality(Joined(id)) < 2]_vars

\* C10 witness: two players joined, both sockets have disconnected since, and
\* the session is in the registry with its pending-join timer cleared.
C10_Witness ==
  \E id \in sessions :
    /\ Cardinality(Joined(id)) = 2
    /\ DOMAIN heap[id].sockets = {}
    /\ Cardinality(closed) = 2
    /\ heap[id].pendingJoinTimer = "null"

\* C11: a session whose pending-join timer is scheduled comes, under
\* fairness of the timer, either to hold two joined players (the timer was
\* cancelled) or to be removed from the registry for good: with fewer than
\* two joined when the deadline elapses, get(id) finds nothing from then on.
C11_PendingJoinExpiry ==
  \A id \in SessionIds :
    (id \in sessions /\ heap[id].pendingJoinTimer = "scheduled")
      ~> ( \/ (id \in DOMAIN heap /\ Cardinality(Joined(id)) = 2)
           \/ [](ManagerGet(id) = << >>) )

\* C11 witness: the pending-join timer fired with one player joined and the
\* session is gone from the registry.
C11_Witness ==
  \E id \in DOMAIN heap :
    /\ heap[id].pendingJoinTimer = "fired"
    /\ Cardinality(Joined(id)) = 1
    /\ ManagerGet(id) = << >>

\* C12: when a disconnect takes a session of two joined players out of
\* bothConnected(), the disconnect timer is scheduled; and from a state with
\* that timer scheduled the session is, under fairness of the timer,
\* eventually removed from the registry unless bothConnected() becomes true
\* again first.
C12_DisconnectExpiry ==
  /\ [][\A id \in sessions :
          (bothConnected(heap[id]) /\ ~bothConnected(heap'[id]) /\ closed' # closed)
          => heap'[id].disconnectTimer = "scheduled"]_vars
  /\ \A id \in SessionIds :
       ( /\ id \in sessions
         /\ Cardinality(Joined(id)) = 2
         /\ ~bothConnected(heap[id])
         /\ heap[id].disconnectTimer = "scheduled" )
       ~> (id \notin sessions \/ bothConnected(heap[id]))

\* C12 witness: two players had joined, one socket is still attached, and the
\* disconnect timer has fired and removed the session.
C12_Witness ==
  \E id \in DOMAIN heap :
    /\ Cardinality(Joined(id)) = 2
    /\ Cardinality(DOMAIN heap[id].sockets) = 1
    /\ heap[id].disconnectTimer = "fired"
    /\ id \notin cleared
    /\ id \notin sessions

\* C13: a session in the registry that is bothConnected() has no disconnect
\* timer (the attachSocket that made it so cleared the one that ran) and
\* stays in the registry; a new timer is set only by a disconnect, and a
\* session of two joined players leaves the registry only as that timer fires.
C13_ReconnectCancels ==
  [][\A id \in sessions :
       /\ bothConnected(heap'[id]) => heap'[id].disconnectTimer = "null"
       /\ bothConnected(heap[id]) => id \in sessions'
       /\ (heap[id].disconnectTimer = "null" /\ heap'[id].disconnectTimer # "null")
            => (closed' # closed /\ heap'[id].disconnectTimer = "scheduled")
       /\ (Cardinality(Joined(id)) = 2 /\ id \notin sessions')
            => (heap[id].disconnectTimer = "scheduled"
                  /\ heap'[id].disconnectTimer = "fired")]_vars

\* C13 witness: attachSocket cleared a running disconnect timer; the session
\* is bothConnected(), in the registry, with no timer.
C13_Witness ==
  \E id \in sessions :
    /\ id \in cleared
    /\ bothConnected(heap[id])
    /\ heap[id].disconnectTimer = "null"

\* C14: the disconnect timer never removes a session that is
\* bothConnected() as the timer fires.
C14_NoRemovalWhileConnected ==
  [][\A id \in sessions :
       (DisconnectTimeout(id) /\ id \notin sessions') => ~bothConnected(heap[id])]_vars

\* C14 witness: a disconnect timer was cleared by a reconnect, and a later
\* one has fired and removed the session.
C14_Witness ==
  \E id \in DOMAIN heap :
    /\ id \in cleared
    /\ heap[id].disconnectTimer = "fired"
    /\ id \notin sessions

\* What every useAbility step shows: a socket emit, and the registry and the
\* gateway's socket bookkeeping left alone (OnUseAbility implies it)
UseAbilityFrame ==
  /\ out' # << >>
  /\ out'[1].ch = "socket"
  /\ UNCHANGED <<sessions, socketToSession, connected, closed, cleared>>

\* C15: a useAbility that fails (unknown session, or fromPlayer or toPlayer
\* not joined) changes no Session and no round counter; one that succeeds
\* raises the round counter of its session by exactly 1, changes the health
\* of at most one Character, and changes nothing else.
C15_AttackAllOrNothing ==
  [][\A c \in Sender, id \in SessionIds, f \in PlayerIdInputs, t \in PlayerIdInputs,
        rA \in BOOLEAN :
       (UseAbilityFrame /\ OnUseAbility(c, id, f, t, rA, FALSE)) =>
         IF id \in sessions /\ f \in Joined(id) /\ t \in Joined(id)
         THEN /\ sessionRounds'[id] = RoundsOf(id) + 1
              /\ \A x \in DOMAIN sessionRounds' \ {id} :
                   x \in DOMAIN sessionRounds /\ sessionRounds'[x] = sessionRounds[x]
              /\ Cardinality({p \in Joined(id) :
                     heap'[id].players[p].health # heap[id].players[p].health}) <= 1
              /\ heap' = [heap EXCEPT ![id].players =
                           [p \in Joined(id) |->
                              [heap[id].players[p] EXCEPT
                                 !.health = heap'[id].players[p].health]]]
         ELSE /\ heap' = heap
              /\ sessionRounds' = sessionRounds
              /\ resolved' = resolved]_vars

\* C15 witness: after a resolved round, a useAbility naming a player that has
\* not joined was refused.
C15_Witness ==
  \E id \in sessions :
    /\ RoundsOf(id) >= 1
    /\ \E p \in Joined(id) : heap[id].players[p].health < InitialHealth
    /\ out = <<Emit("caller", id, "error", "One or both players not recognized.")>>

\* C16: a session leaves the registry only in a step of its pending-join
\* timer or of its disconnect timer; no useAbility step removes one, and a
\* useAbility naming two joined players of a registered session is resolved
\* whatever their health, 0 included.
C16_OnlyTimersRemove ==
  [][\A id \in sessions :
       /\ id \notin sessions' => (PendingJoinTimeout(id) \/ DisconnectTimeout(id))
       /\ \A c \in Sender, f \in Joined(id), t \in Joined(id) :
            (UseAbilityFrame /\ OnUseAbility(c, id, f, t, TRUE, FALSE))
            => /\ out'[1].ev = "roundResult"
               /\ sessions' = sessions]_vars

\* C16 witness: a Character at health 0 has attacked the other player and the
\* round was resolved; the session is in the registry.
C16_Witness ==
  \E id \in sessions :
    /\ out # << >>
    /\ out[1].ev = "roundResult"
    /\ out[1].room = id
    /\ out[1].data.attackerId # out[1].data.defenderId
    /\ heap[id].players[out[1].data.attackerId].health = 0

\* C17: a socket whose disconnect has been handled is in the socket map of no
\* session of the registry.
C17_DisconnectDetaches ==
  \A c \in closed : \A id \in sessions : c \notin DOMAIN heap[id].sockets

\* C18: a useAbility that is resolved sends exactly a roundResult and then a
\* state, both to the room of the session, and both carry the health the
\* round committed; one that fails sends exactly one error, to the caller.
C18_RoundBroadcast ==
  [][\A c \in Sender, id \in SessionIds, f \in PlayerIdInputs, t \in PlayerIdInputs,
        rA \in BOOLEAN :
       (UseAbilityFrame /\ OnUseAbility(c, id, f, t, rA, FALSE)) =>
         IF id \in sessions /\ f \in Joined(id) /\ t \in Joined(id)
         THEN /\ Len(out') = 2
              /\ out'[1].ev = "roundResult" /\ out'[1].to = "room" /\ out'[1].room = id
              /\ out'[2].ev = "state" /\ out'[2].to = "room" /\ out'[2].room = id
              /\ \A p \in {f, t} :
                   out'[1].data.healthAfter[p] = heap'[id].players[p].health
              /\ \A p \in JoinedAfter(id) :
                   out'[2].data.players[p].health = heap'[id].players[p].health
         ELSE /\ Len(out') = 1
              /\ out'[1].ev = "error" /\ out'[1].to = "caller"]_vars

\* C18 witness: a round that dealt damage was broadcast as roundResult then
\* state, and the state shows the defender's lowered health.
C18_Witness ==
  /\ Len(out) = 2
  /\ out[1].ev = "roundResult" /\ out[2].ev = "state"
  /\ out[1].data.damageDealt > 0
  /\ out[2].data.players[out[1].data.defenderId].health
       = InitialHealth - out[1].data.damageDealt

\* C19: a join event naming a session that is not in the registry, or a
\* player id that has not joined that session, sends one error to the caller
\* and leaves every Session (socket map and timers included) and the
\* gateway's maps unchanged; any other join event maps the socket to the
\* named player and broadcasts the state of the session to its room.
C19_JoinEvent ==
  [][\A c \in SocketIds, id \in SessionIds, p \in PlayerIdInputs :
       (out' # << >> /\ closed' = closed /\ OnJoin(c, id, p)) =>
         IF id \in sessions /\ p \in Joined(id)
         THEN /\ c \in DOMAIN heap'[id].sockets
              /\ heap'[id].sockets[c] = p
              /\ socketToSession'[c] = id
              /\ out' = <<Emit("room", id, "state", serialize(heap'[id]))>>
         ELSE /\ Len(out') = 1
              /\ out'[1].ev = "error" /\ out'[1].to = "caller"
              /\ heap' = heap
              /\ socketToSession' = socketToSession
              /\ sessionRounds' = sessionRounds]_vars

\* C19 witness: with one socket attached to a joined player, a join event
\* naming a player id that has not joined was refused.
C19_Witness ==
  \E id \in sessions :
    /\ DOMAIN heap[id].sockets # {}
    /\ out = <<Emit("caller", id, "error", "You have not joined or invalid playerId")>>

\* C20: when one resolved round, of a player attacking the other player,
\* directly follows another round of the same session, its attacker is not
\* the attacker of that earlier round.
C20_TurnsAlternate ==
  [][\A id \in sessions, f \in DuelPlayerIds, t \in DuelPlayerIds,
        rA \in BOOLEAN, rD \in BOOLEAN :
       ( /\ out # << >>
         /\ out[1].ev = "roundResult"
         /\ out[1].room = id
         /\ out[1].data.attackerId # out[1].data.defenderId
         /\ f # t
         /\ UseAbilityFrame
         /\ OnUseAbility(1, id, f, t, rA, rD)
         /\ out'[1].ev = "roundResult" )
       => out'[1].data.attackerId # out[1].data.attackerId]_vars

\* ------------------------------------------------ claims about one round
\* The attack of the combat specification: player 1 of session 1 attacks
\* player 2 with the hook outcomes rA (offense) and rD (defense).
CombatStep(rA, rD) == OnUseAbility(1, 1, player1Id(1), player2Id(1), rA, rD)
CombatAttacker == heap[1].players[player1Id(1)]
CombatDefender == heap[1].players[player2Id(1)]
Max(a, b) == IF a >= b THEN a ELSE b
\* the damage of a round in which no hook acts, and the health it leaves
PlainDamage == Max(0, CombatAttacker.attackPower - CombatDefender.defensePower)
PlainHealth == Max(0, CombatDefender.health - PlainDamage)
\* the roundResult payload of the step, and the state a step has left
RoundOut == out'[1].data
RoundDone == Len(out) = 2 /\ out[1].ev = "roundResult"

\* No hook changes its input: an offense attacker's onAttack does not trigger
\* (a triggered boost always changes an attack of 15..20); a halving
\* defender's onDefend does not trigger or halves 0; a healing defender's
\* afterDamage does not trigger or sees a health outside 1..29.
NoHookChanges(rA, rD) ==
  /\ CombatAttacker.ability.kind = "offense" => ~rA
  /\ CombatDefender.ability.id = "halfDamageOnDefend" => (~rD \/ PlainDamage = 0)
  /\ CombatDefender.ability.id = "healUnder30"
       => (~rD \/ PlainHealth = 0 \/ PlainHealth >= HealThreshold)

\* C21: when no ability hook changes its input in a round, the round reports
\* damageDealt = max(0, attacker.attackPower - defender.defensePower) and
\* abilityUsed = null, and the defender's health becomes
\* max(0, health before - damageDealt).
C21_PlainRound ==
  [][\A rA \in BOOLEAN, rD \in BOOLEAN :
       (CombatStep(rA, rD) /\ NoHookChanges(rA, rD))
       => /\ RoundOut.damageDealt = PlainDamage
          /\ RoundOut.abilityUsed = Null
          /\ RoundOut.healthAfter[player2Id(1)] = PlainHealth
          /\ heap'[1].players[player2Id(1)].health = PlainHealth]_vars

\* C21 witness: attack 20 against defense 10 at health 100 without any hook
\* effect: damage 10, no label, health 90.
C21_Witness ==
  /\ RoundDone
  /\ CombatAttacker.attackPower = 20 /\ CombatDefender.defensePower = 10
  /\ out[1].data.damageDealt = 10
  /\ out[1].data.abilityUsed = Null
  /\ out[1].data.healthAfter[player2Id(1)] = 90
  /\ CombatDefender.health = 90

\* the ids of the defense abilities, and the labels that include the id a
DefenseIds == {"halfDamageOnDefend", "healUnder30"}
LabelsWith(a) == {a} \cup {a \o "," \o d : d \in DefenseIds}
\* the damage left of n by the defender's onDefend with outcome rD
AfterOnDefend(n, rD) ==
  IF CombatDefender.ability.id = "halfDamageOnDefend" /\ rD THEN n \div 2 ELSE n

\* C22: when the attacker's ability is of kind offense and onAttack triggers,
\* the attack value used is floor(1.5 * attackPower), the damage is computed
\* from that value and abilityUsed includes the offense ability's id; an
\* attacker whose ability is of kind defense attacks with its attackPower
\* and no offense id is recorded.
C22_OffenseBoost ==
  [][\A rA \in BOOLEAN, rD \in BOOLEAN :
       CombatStep(rA, rD)
       => LET a == CombatAttacker.attackPower
              d == CombatDefender.defensePower
              boosted == (3 * a) \div 2
          IN  /\ (CombatAttacker.ability.kind = "offense" /\ rA)
                   => /\ RoundOut.damageDealt = AfterOnDefend(Max(0, boosted - d), rD)
                      /\ RoundOut.abilityUsed \in LabelsWith(CombatAttacker.ability.id)
              /\ CombatAttacker.ability.kind = "defense"
                   => /\ RoundOut.damageDealt = AfterOnDefend(Max(0, a - d), rD)
                      /\ RoundOut.abilityUsed \in {Null} \cup DefenseIds]_vars

\* C22 witness: attack 20 boosted to 30 against defense 10 at health 100:
\* damage 20, health 80, the offense id as label.
C22_Witness ==
  /\ RoundDone
  /\ CombatAttacker.attackPower = 20 /\ CombatDefender.defensePower = 10
  /\ CombatAttacker.ability.kind = "offense"
  /\ out[1].data.damageDealt = 20
  /\ out[1].data.abilityUsed = CombatAttacker.ability.id
  /\ CombatDefender.health = 80

\* the attack value of a round whose onAttack has outcome rA
AttackUsed(rA) ==
  IF CombatAttacker.ability.kind = "offense" /\ rA
  THEN (3 * CombatAttacker.attackPower) \div 2
  ELSE CombatAttacker.attackPower
\* the labels that include the defense id d
LabelsOfDefense(d) == {d} \cup {"boostAttackOnAttack" \o "," \o d}

\* C23: when the defender's ability is halfDamageOnDefend and onDefend
\* triggers, the damage reported and taken from the defender's health is
\* floor(netDamage / 2), and abilityUsed includes the defense ability's id
\* exactly when netDamage > 0.
C23_HalfDamage ==
  [][\A rA \in BOOLEAN :
       (CombatStep(rA, TRUE) /\ CombatDefender.ability.id = "halfDamageOnDefend")
       => LET netDamage == Max(0, AttackUsed(rA) - CombatDefender.defensePower)
              half == netDamage \div 2
          IN  /\ RoundOut.damageDealt = half
              /\ heap'[1].players[player2Id(1)].health
                   = Max(0, CombatDefender.health - half)
              /\ (RoundOut.abilityUsed \in LabelsOfDefense("halfDamageOnDefend"))
                   <=> netDamage > 0]_vars

\* C23 witness: net damage 20 (attack 20 boosted to 30, defense 10) halved
\* to 10 at health 100, with both ids in the label.
C23_Witness ==
  /\ RoundDone
  /\ CombatAttacker.attackPower = 20 /\ CombatDefender.defensePower = 10
  /\ CombatDefender.ability.id = "halfDamageOnDefend"
  /\ out[1].data.damageDealt = 10
  /\ out[1].data.abilityUsed = "boostAttackOnAttack,halfDamageOnDefend"
  /\ CombatDefender.health = 90

\* C24: when the defender's ability is healUnder30 and afterDamage triggers,
\* with h the health left after the damage: if 0 < h < 30 the committed
\* health is h + 5 and abilityUsed includes the heal ability's id; if h = 0
\* or h >= 30 the committed health is h and no heal id is recorded.
C24_HealUnder30 ==
  [][\A rA \in BOOLEAN :
       (CombatStep(rA, TRUE) /\ CombatDefender.ability.id = "healUnder30")
       => LET damage == Max(0, AttackUsed(rA) - CombatDefender.defensePower)
              h == Max(0, CombatDefender.health - damage)
              healed == RoundOut.abilityUsed \in LabelsOfDefense("healUnder30")
              committed == heap'[1].players[player2Id(1)].health
          IN  /\ (0 < h /\ h < 30) => (committed = h + 5 /\ healed)
              /\ (h = 0 \/ h >= 30) => (committed = h /\ ~healed)
              /\ RoundOut.healthAfter[player2Id(1)] = committed]_vars

\* C24 witness: health 25 and damage 0 (attack 15 against defense 15) with
\* the heal triggered: health 30 and the heal id as label.
C24_Witness ==
  /\ RoundDone
  /\ CombatAttacker.attackPower = 15 /\ CombatDefender.defensePower = 15
  /\ CombatDefender.ability.id = "healUnder30"
  /\ out[1].data.damageDealt = 0
  /\ out[1].data.abilityUsed = "healUnder30"
  /\ CombatDefender.health = 30
  /\ resolved[1] = 1

\* C29: abilityUsed of a round is null iff no hook returned a value different
\* from its input; otherwise it is the ids of exactly the hooks that changed
\* their input, the offense id first and then the defense id, joined by a
\* comma.
C29_AbilityLabel ==
  [][\A rA \in BOOLEAN, rD \in BOOLEAN :
       CombatStep(rA, rD)
       => LET netDamage == Max(0, AttackUsed(rA) - CombatDefender.defensePower)
              isHalf == CombatDefender.ability.id = "halfDamageOnDefend"
              isHeal == CombatDefender.ability.id = "healUnder30"
              h == Max(0, CombatDefender.health - netDamage)
              offenseChanged == AttackUsed(rA) # CombatAttacker.attackPower
              defenseChanged ==
                \/ isHalf /\ rD /\ netDamage \div 2 # netDamage
                \/ isHeal /\ rD /\ 0 < h /\ h < 30
              o == CombatAttacker.ability.id
              d == CombatDefender.ability.id
          IN  /\ RoundOut.abilityUsed = Null <=> (~offenseChanged /\ ~defenseChanged)
              /\ (offenseChanged /\ defenseChanged)
                   => RoundOut.abilityUsed = o \o "," \o d
              /\ (offenseChanged /\ ~defenseChanged) => RoundOut.abilityUsed = o
              /\ (~offenseChanged /\ defenseChanged) => RoundOut.abilityUsed = d]_vars

\* C29 witness: a round in which the boost and the heal both changed their
\* input carries both ids, the offense id first.
C29_Witness ==
  /\ RoundDone
  /\ out[1].data.abilityUsed = "boostAttackOnAttack,healUnder30"
  /\ out[1].data.damageDealt > 0
  /\ out[1].data.healthAfter[player2Id(1)] < 35

\* C30: in every round outcome healthAfter has exactly the attacker's and the
\* defender's id as keys, each mapped to the health the session holds after
\* the round; damageDealt is the net damage after onDefend, not reduced to
\* the health the defender had left; and unless the heal changes the health,
\* healthAfter[defender] = max(0, health before - damageDealt).
C30_RoundOutcome ==
  [][\A rA \in BOOLEAN, rD \in BOOLEAN :
       CombatStep(rA, rD)
       => LET a == player1Id(1)
              d == player2Id(1)
              netDamage == AfterOnDefend(Max(0, AttackUsed(rA) - CombatDefender.defensePower), rD)
              h == Max(0, CombatDefender.health - netDamage)
              healing == /\ CombatDefender.ability.id = "healUnder30"
                         /\ rD /\ 0 < h /\ h < 30
          IN  /\ DOMAIN RoundOut.healthAfter = {a, d}
              /\ RoundOut.healthAfter[a] = heap'[1].players[a].health
              /\ RoundOut.healthAfter[d] = heap'[1].players[d].health
              /\ RoundOut.healthAfter[a] = CombatAttacker.health
              /\ RoundOut.damageDealt = netDamage
              /\ ~healing => RoundOut.healthAfter[d] = h]_vars

\* C30 witness: a defender with health 5 takes a round of damage 10: the
\* outcome reports damage 10, the defender at 0 and the attacker at 100.
C30_Witness ==
  /\ RoundDone
  /\ resolved[1] = 1
  /\ out[1].data.damageDealt = 10
  /\ out[1].data.healthAfter[player2Id(1)] = 0
  /\ out[1].data.healthAfter[player1Id(1)] = InitialHealth
  /\ CombatDefender.health = 0 /\ CombatAttacker.health = InitialHealth
  /\ CombatAttacker.attackPower - CombatDefender.defensePower = 10

\* ------------------------------------------- claims about join and registry
\* C28: addPlayer with a known characterTypeId and abilityId on a session of
\* the registry that holds fewer than two joined players succeeds and
\* returns one of the session's two pre-allocated player ids, whatever
\* addPlayer calls were made on the session before.
C28_ValidJoinSucceeds ==
  [][\A id \in SessionIds, ps \in PreferredSlotInputs, a \in AttackDraws,
        d \in DefenseDraws :
       ( /\ JoinGame(id, "warrior", "boostAttackOnAttack", ps, a, d)
         /\ id \in sessions
         /\ Cardinality(Joined(id)) < 2 )
       => /\ out'[1].data.status = 200
          /\ out'[1].data.body.playerId \in {heap[id].player1Id, heap[id].player2Id}
          /\ out'[1].data.body.playerId \in JoinedAfter(id)]_vars

\* a timer callback of session id runs
TimerStep(id) == PendingJoinTimeout(id) \/ DisconnectTimeout(id)

\* C25: registry delete is idempotent.  A timer callback of session id takes
\* at most id out of the registry; if id is already absent the registry is
\* left as it is and the callback completes without output; every other
\* session stays registered and unchanged; and a removed session never
\* returns to the registry, so it is removed at most once.
C25_DeleteIdempotent ==
  [][\A id \in RegistrySessionIds :
       /\ TimerStep(id)
            => /\ sessions' \in {sessions, sessions \ {id}}
               /\ id \notin sessions => (sessions' = sessions /\ out' = << >>)
               /\ \A o \in DOMAIN heap \ {id} : heap'[o] = heap[o]
       /\ (id \in DOMAIN heap /\ id \notin sessions) => id \notin sessions']_vars

\* C25 witness: both timers of a session with one joined player have fired,
\* each calling delete(id): the session is gone and the other session is
\* still registered.
C25_Witness ==
  \E id \in DOMAIN heap, o \in sessions :
    /\ o # id
    /\ Cardinality(Joined(id)) = 1
    /\ heap[id].pendingJoinTimer = "fired"
    /\ heap[id].disconnectTimer = "fired"
    /\ id \notin sessions

\* an operation addressed to session id: a join request, a join or
\* useAbility event naming it, the disconnect of a socket mapped to it, or
\* one of its timers
AddressedTo(id) ==
  \/ JoinGame(id, "warrior", "boostAttackOnAttack", << >>, MaxAttack, MinDefense)
  \/ \E c \in SocketIds, p \in RegistryPlayerIds : OnJoin(c, id, p)
  \/ \E c \in SocketIds, f \in RegistryPlayerIds, t \in RegistryPlayerIds :
       OnUseAbility(c, id, f, t, FALSE, FALSE)
  \/ \E c \in DOMAIN socketToSession : socketToSession[c] = id /\ OnDisconnect(c)
  \/ TimerStep(id)

\* session o keeps its players and their health, its claimed slots, its
\* socket map, its timers, its round counter and its place in the registry
SessionUntouched(o) ==
  /\ heap'[o] = heap[o]
  /\ o \in sessions' <=> o \in sessions
  /\ o \in DOMAIN sessionRounds' <=> o \in DOMAIN sessionRounds
  /\ o \in DOMAIN sessionRounds => sessionRounds'[o] = sessionRounds[o]

\* C26: sessions are independent: an operation addressed to one session
\* (join request, join event, useAbility, disconnect, timer expiry) leaves
\* the joined players, health values, claimed slots, connection map, timers
\* and round counter of every other session unchanged.
C26_SessionsIndependent ==
  [][\A id \in RegistrySessionIds :
       AddressedTo(id) => \A o \in DOMAIN heap \ {id} : SessionUntouched(o)]_vars

\* C26 witness: one session has resolved a round (counter 1, a player below
\* full health) and the last event was a join to the other session, whose
\* state was broadcast.
C26_Witness ==
  \E id \in sessions, o \in sessions :
    /\ o # id
    /\ RoundsOf(o) = 1
    /\ \E p \in Joined(o) : heap[o].players[p].health < InitialHealth
    /\ DOMAIN heap[id].sockets # {}
    /\ out = <<Emit("room", id, "state", serialize(heap[id]))>>

\* everything but the outputs of the last handler
varsButOut ==
  <<heap, sessions, socketToSession, sessionRounds, connected, closed, resolved,
    cleared>>
\* session id was created and has been deleted
Destroyed(id) == id \in DOMAIN heap /\ id \notin sessions
NotFoundHttp(route, id) == Http(route, id, 404, [error |-> "Session not found"])
NotFoundEvent(id) == <<Emit("caller", id, "error", "Session not found.")>>

\* C27: destroyed is terminal.  create() registers an identifier that was
\* never in the registry before; a registered session is found by get(id)
\* until a timer of its own deletes it; once deleted it is never registered
\* again, and every later slot query, join request, join event or useAbility
\* event for it reports session-not-found and changes no state.
C27_DestroyedIsTerminal ==
  [][ /\ (out' # << >> /\ out'[1].ev = "create")
           => /\ out'[1].data.body.sessionId \notin DOMAIN heap
              /\ sessions' = sessions \cup {out'[1].data.body.sessionId}
      /\ \A id \in RegistrySessionIds :
           /\ id \in sessions
                => /\ ManagerGet(id) = <<heap[id]>>
                   /\ id \notin sessions' => TimerStep(id)
           /\ Destroyed(id)
                => /\ id \notin sessions'
                   /\ GetSlots(id)
                        => (out' = NotFoundHttp("slots", id) /\ UNCHANGED varsButOut)
                   /\ JoinGame(id, "warrior", "boostAttackOnAttack", << >>,
                               MaxAttack, MinDefense)
                        => (out' = NotFoundHttp("join", id) /\ UNCHANGED varsButOut)
                   /\ \A c \in SocketIds, p \in RegistryPlayerIds :
                        OnJoin(c, id, p)
                          => (out' = NotFoundEvent(id) /\ UNCHANGED varsButOut)
                   /\ \A c \in SocketIds, f \in RegistryPlayerIds,
                         t \in RegistryPlayerIds :
                        OnUseAbility(c, id, f, t, FALSE, FALSE)
                          => (out' = NotFoundEvent(id) /\ UNCHANGED varsButOut) ]_vars

\* C27 witness: a session that held two players was deleted (its disconnect
\* timer fired), the other session is registered, and the last request, a
\* join request for the deleted one, was answered session-not-found.
C27_Witness ==
  \E id \in DOMAIN heap, o \in sessions :
    /\ Destroyed(id)
    /\ Cardinality(Joined(id)) = 2
    /\ heap[id].disconnectTimer = "fired"
    /\ out = NotFoundHttp("join", id)

\* ---------------------------------------------- claims about the Session
\* C31: detachSocket of a socket id that is not in the session's socket map
\* returns false and changes nothing of the session; a detachSocket made
\* while a disconnect timer is running starts no other one; so at most one
\* callback of a disconnect timer waits per session, and one does exactly
\* when the timer field holds a running timer.
C31_DetachSocket ==
  [][\A id \in DOMAIN heap :
       /\ heap'[id].disconnectTimeouts <= 1
       /\ heap'[id].disconnectTimeouts = 1 <=> heap'[id].disconnectTimer = "scheduled"
       /\ \A c \in SocketIds :
            DetachSocketCall(id, c)
            => /\ c \notin DOMAIN heap[id].sockets
                    => (out' = Return(id, "detachSocket", FALSE) /\ heap'[id] = heap[id])
               /\ heap[id].disconnectTimer = "scheduled"
                    => /\ heap'[id].disconnectTimer = "scheduled"
                       /\ heap'[id].disconnectTimeouts = heap[id].disconnectTimeouts]_vars

\* C31 witness: with one socket still mapped and a disconnect timer running,
\* a detachSocket of an unmapped socket id returned false; one callback waits.
C31_Witness ==
  \E id \in DOMAIN heap :
    /\ out = Return(id, "detachSocket", FALSE)
    /\ Cardinality(Joined(id)) = 2
    /\ Cardinality(DOMAIN heap[id].sockets) = 1
    /\ heap[id].disconnectTimer = "scheduled"
    /\ heap[id].disconnectTimeouts = 1

\* C32: the Character stored for a joined player stays stored, with the
\* type, name, attackPower (in 15..20), defensePower (in 10..15), ability and
\* attack types it was built with; only its health changes, and only in a
\* round in which that player is the defender.
C32_CharacterFixed ==
  [][\A id \in DOMAIN heap : \A p \in Joined(id) :
       /\ p \in JoinedAfter(id)
       /\ LET before == heap[id].players[p]
              after == heap'[id].players[p]
          IN  /\ [after EXCEPT !.health = before.health] = before
              /\ after.attackPower \in MinAttack..MaxAttack
              /\ after.defensePower \in MinDefense..MaxDefense
              /\ after.health # before.health
                   => /\ out' # << >>
                      /\ out'[1].ev = "roundResult"
                      /\ out'[1].data.defenderId = p]_vars

\* C33: Session.useAbility and the gateway's inline resolution are
\* equivalent on state: from the same session and with the same hook
\* outcomes, the handler leaves exactly the session that the method leaves,
\* and either changes nothing of it but the defender's health.
C33_ResolutionsAgree ==
  [][\A f \in EquivalenceAttackers, rA \in BOOLEAN, rD \in BOOLEAN :
       LET t == player2Id(1)
           others == [heap'[1] EXCEPT !.players[t].health = heap[1].players[t].health]
       IN  /\ OnUseAbility(1, 1, f, t, rA, rD)
                => (heap'[1] = useAbility(heap[1], f, t, rA, rD) /\ others = heap[1])
           /\ UseAbilityCall(1, f, t, rA, rD)
                => /\ others = heap[1]
                   /\ heap'[1].players[t].health
                        = ResolveAttack(heap[1].players[f], heap[1].players[t],
                                        rA, rD, rD).newHealth]_vars

\* C33 witness: a direct call of Session.useAbility has resolved a round in
\* which the boost and the halving both acted: attack 20 boosted to 30 against
\* defense 10, damage 10, health 90.
C33_Witness ==
  /\ out = Return(1, "useAbility", Null)
  /\ resolved[1] = 1
  /\ CombatAttacker.attackPower = 20 /\ CombatAttacker.ability.id = "boostAttackOnAttack"
  /\ CombatDefender.defensePower = 10
  /\ CombatDefender.ability.id = "halfDamageOnDefend"
  /\ CombatDefender.health = 90

\* C34: whenever a step takes a registered session from bothConnected() to
\* not bothConnected() (a detach, or an attach that maps an already mapped
\* socket id to the other player), a disconnect timer is running for that
\* session right after the step.
C34_TimerAfterDrop ==
  [][\A id \in sessions :
       (bothConnected(heap[id]) /\ ~bothConnected(heap'[id]))
       => heap'[id].disconnectTimer = "scheduled"]_vars

\* C35: a registered session that holds two joined players and is not
\* bothConnected() is, under fairness of the timers, eventually removed from
\* the registry unless it becomes bothConnected() first; this includes a
\* full session to which no socket, or one player's socket only, was ever
\* attached.
C35_FullSessionExpires ==
  \A id \in SessionIds :
    ( /\ id \in sessions
      /\ Cardinality(Joined(id)) = 2
      /\ ~bothConnected(heap[id]) )
    ~> (id \notin sessions \/ bothConnected(heap[id]))

\* C36: in every state reached through the gateway's join, useAbility and
\* disconnect events, each player id stored as a value of a session's socket
\* map is a joined player of that same session.
C36_SocketsMapJoinedPlayers ==
  \A id \in DOMAIN heap :
    \A c \in DOMAIN heap[id].sockets : heap[id].sockets[c] \in Joined(id)

\* C36 witness: a socket is mapped to a joined player of a session, and its
\* last join event, naming that session with a player id that has not joined
\* it, was refused.
C36_Witness ==
  \E id \in sessions :
    /\ DOMAIN heap[id].sockets # {}
    /\ Cardinality(Joined(id)) = 1
    /\ out = <<Emit("caller", id, "error", "You have not joined or invalid playerId")>>

\* C37: a Character's health is at most 100 in every state, and a Character
\* whose health is 0 has health 0 after every round resolved afterwards: the
\* heal hook does not revive it.
C37_HealthBounded ==
  /\ \A p \in Joined(1) : heap[1].players[p].health <= 100
  /\ [][\A rA \in BOOLEAN, rD \in BOOLEAN :
          CombatStep(rA, rD)
          => \A p \in Joined(1) :
               /\ heap'[1].players[p].health <= 100
               /\ heap[1].players[p].health = 0 => heap'[1].players[p].health = 0]_vars

\* C37 witness: a round of damage 0 was resolved against a healing defender
\* whose health was 0, with the heal hook triggered or not; the health is 0.
C37_Witness ==
  /\ RoundDone
  /\ CombatDefender.ability.id = "healUnder30"
  /\ CombatAttacker.attackPower = CombatDefender.defensePower
  /\ out[1].data.damageDealt = 0
  /\ out[1].data.abilityUsed = Null
  /\ CombatDefender.health = 0

====
